---- MODULE Spec2Model ----
(***************************************************************************)
(* TX_hash_checker.py: validation of a TRON TRC20 transfer.                *)
(*                                                                         *)
(* One call of the public operation is the decorated get_tx_info: the      *)
(* wrapper of retry_on_exception runs the function body, which checks the  *)
(* parameters, issues one HTTP GET, checks the response and applies the    *)
(* validation gates to the decoded record.  The network's answer, the      *)
(* record it carries and the wall clock are the inputs of the call.        *)
(*                                                                         *)
(* Values decoded from JSON are untyped in Python; they are modelled as    *)
(* tagged values so that truthiness, comparison and conversion behave as   *)
(* the interpreter's do, TypeError and AttributeError included.            *)
(* Times are in milliseconds.                                              *)
(***************************************************************************)
EXTENDS Integers, Sequences, FiniteSets

\* ------------------------------------------------------------------------
\* Configuration constants of the module (lines 22-26)
\* ------------------------------------------------------------------------
MIN_CONFIRMATIONS == 20
TX_EXPIRY_SECONDS == 600
MAX_RETRIES == 3
RETRY_DELAY == 1
\* 10**6, the divisor of line 152
SUN_PER_USDT == 1000000

\* ------------------------------------------------------------------------
\* Bounds of the explored inputs
\* ------------------------------------------------------------------------
\* how many fields of a record may depart from the values a valid transfer has
MaxDeviations == 2
\* confirmation counts are explored MIN_CONFIRMATIONS -+ ConfSpread
ConfSpread == 1
\* ages are explored TX_EXPIRY_SECONDS -+ AgeSpread seconds, each -+ 1 ms
AgeSpread == 1
\* the wall clock of the call, in milliseconds
ClockMs == 2000000

\* ------------------------------------------------------------------------
\* JSON values as Python sees them
\* ------------------------------------------------------------------------
\* t: the Python type; s: an address-like string; cs: a string kept as its
\* characters (where the code looks inside it); n: the number.
\* "bigint" is an int whose magnitude is beyond what the conversion applied
\* to it accepts (float() at line 151, datetime.fromtimestamp at line 157).
JVal(t, s, cs, n) == [t |-> t, s |-> s, cs |-> cs, n |-> n]
Absent == JVal("absent", "", <<>>, 0)
JNull == JVal("null", "", <<>>, 0)
JStr(x) == JVal("str", x, <<>>, 0)
JChars(q) == JVal("str", "", q, 0)
JInt(k) == JVal("int", "", <<>>, k)
JBool(b) == JVal("bool", "", <<>>, IF b THEN 1 ELSE 0)
JBig == JVal("bigint", "", <<>>, 0)

\* dict.get(key, default): the default replaces a missing key only
Get(v, default) == IF v.t = "absent" THEN default ELSE v

\* bool(v), as used by `not v`
Truthy(v) ==
    CASE v.t = "null" -> FALSE
      [] v.t = "bool" -> v.n = 1
      [] v.t = "int" -> v.n # 0
      [] v.t = "bigint" -> TRUE
      [] v.t = "str" -> v.s # "" \/ v.cs # <<>>
      [] OTHER -> FALSE

\* v is a Python number (bool is a subclass of int)
IsNumber(v) == v.t \in {"int", "bool", "bigint"}

\* a == b between a decoded value and a str
PyEqStr(v, x) == v.t = "str" /\ v.cs = <<>> /\ v.s = x

\* the revert flag compared with the text "true" instead of the object True
IsTrueObject_text(v) == v.t = "str" /\ v.s = "true"

\* `v is True`
IsTrueObject(v) == v.t = "bool" /\ v.n = 1

\* str.lower() on the characters of a string
LowerChar(c) ==
    CASE c = "T" -> "t"
      [] c = "R" -> "r"
      [] c = "C" -> "c"
      [] OTHER -> c
Lower(q) == [i \in 1..Len(q) |-> LowerChar(q[i])]

\* str.strip() on a header value kept as tokens, " " being whitespace
RECURSIVE LStrip(_)
LStrip(q) == IF q # <<>> /\ Head(q) = " " THEN LStrip(Tail(q)) ELSE q
RECURSIVE RStrip(_)
RStrip(q) ==
    IF q # <<>> /\ q[Len(q)] = " " THEN RStrip(SubSeq(q, 1, Len(q) - 1)) ELSE q
Strip(q) == LStrip(RStrip(q))
\* str.startswith("application/json"): the header value is tokenised so that
\* the media type is one token
StartsWithJson(q) == q # <<>> /\ Head(q) = "application/json"

\* float() of a string of characters: the decimal digits are the numeric
\* strings of the model
DigitValue(c) ==
    CASE c = "0" -> 0 [] c = "1" -> 1 [] c = "2" -> 2 [] c = "3" -> 3
      [] c = "4" -> 4 [] c = "5" -> 5 [] c = "6" -> 6 [] c = "7" -> 7
      [] c = "8" -> 8 [] c = "9" -> 9 [] OTHER -> -1
IsNumeric(q) == q # <<>> /\ \A i \in 1..Len(q) : DigitValue(q[i]) >= 0
RECURSIVE ParseDigits(_)
ParseDigits(q) ==
    IF q = <<>> THEN 0
    ELSE 10 * ParseDigits(SubSeq(q, 1, Len(q) - 1)) + DigitValue(q[Len(q)])

\* ------------------------------------------------------------------------
\* Outcomes of a piece of code: a returned value or a raised exception
\* ------------------------------------------------------------------------
PyNone == [none |-> TRUE]
\* http: the number of requests.get calls the code made on the way
Return(d, h) == [kind |-> "return", value |-> d, exc |-> "", http |-> h]
Raise(e, h) == [kind |-> "raise", value |-> PyNone, exc |-> e, http |-> h]

\* the text of a message with the values its f-string interpolates
Msg(text, nums, addr, chars) ==
    [text |-> text, nums |-> nums, addr |-> addr, chars |-> chars]
Reject(text) == [status |-> FALSE, msg |-> Msg(text, <<>>, "", <<>>)]
RejectWith(text, nums, addr, chars) ==
    [status |-> FALSE, msg |-> Msg(text, nums, addr, chars)]

\* isinstance(e, cls) for the exception classes of the except clauses
\* (requests.exceptions and the builtins)
IsInstance(e, cls) ==
    CASE cls = "Timeout" -> e \in {"Timeout", "ConnectTimeout"}
      [] cls = "ConnectionError" -> e \in {"ConnectionError", "ConnectTimeout"}
      [] cls = "ValueError" -> e \in {"ValueError", "JSONDecodeError"}
      [] cls = "TypeError" -> e = "TypeError"
      [] cls = "RequestException" ->
            e \in {"Timeout", "ConnectTimeout", "ConnectionError",
                   "JSONDecodeError", "TooManyRedirects"}
      [] cls = "Exception" -> TRUE
      [] OTHER -> FALSE

\* ------------------------------------------------------------------------
\* The gates of get_tx_info, lines 86-170, on the decoded record
\* ------------------------------------------------------------------------
\* lines 150-155: float(tx_data.get("trigger_info", {}).get("parameter",
\* {}).get("_value", 0)), as a raised exception or the number of sun
amount_sun(trigger_info) ==
    IF trigger_info.ti = "null" THEN [exc |-> "AttributeError", sun |-> 0]
    ELSE IF trigger_info.ti = "absent" THEN [exc |-> "", sun |-> 0]
    ELSE IF trigger_info.parameter = "null"
         THEN [exc |-> "AttributeError", sun |-> 0]
    ELSE IF trigger_info.parameter = "absent" THEN [exc |-> "", sun |-> 0]
    ELSE LET v == Get(trigger_info.value, JInt(0)) IN
         CASE v.t \in {"int", "bool"} -> [exc |-> "", sun |-> v.n]
           [] v.t = "bigint" -> [exc |-> "OverflowError", sun |-> 0]
           [] v.t = "str" ->
                IF IsNumeric(v.cs) THEN [exc |-> "", sun |-> ParseDigits(v.cs)]
                ELSE [exc |-> "ValueError", sun |-> 0]
           [] OTHER -> [exc |-> "TypeError", sun |-> 0]

\* the amount scaled by 10**5 instead of 10**6
amount_usdt_short(sun) == [whole |-> sun \div 100000, micro |-> sun % 100000]

\* line 152: amount_sun / 10**6, kept as whole tokens and millionths
amount_usdt(sun) ==
    [whole |-> sun \div SUN_PER_USDT, micro |-> sun % SUN_PER_USDT]

\* lines 141 and 157: the timestamp in seconds and its local datetime, which
\* exists up to year 9999 only
date_time(time_tx_ms) ==
    IF time_tx_ms.t = "bigint" THEN [exc |-> "ValueError", sec |-> 0, ms |-> 0]
    ELSE [exc |-> "", sec |-> time_tx_ms.n \div 1000, ms |-> time_tx_ms.n % 1000]

\* expiry reached at the window itself: >= instead of >
expired_inclusive(now, time_tx_ms) ==
    /\ time_tx_ms.t # "bigint"
    /\ now - time_tx_ms.n >= TX_EXPIRY_SECONDS * 1000

\* line 145: time_difference > TX_EXPIRY_SECONDS, with now and the timestamp
\* in milliseconds
expired(now, time_tx_ms) ==
    /\ time_tx_ms.t # "bigint"
    /\ now - time_tx_ms.n > TX_EXPIRY_SECONDS * 1000

\* lines 149-170
extract_and_accept(tx_data, tx_hash, sender, receiver, confirmations, time_tx_ms) ==
    LET a == amount_sun(tx_data.trigger_info)
        d == date_time(time_tx_ms)
    IN  IF a.exc \in {"ValueError", "TypeError"}
        THEN Return(Reject("Error: Could not extract transaction amount"), 0)
        ELSE IF a.exc # "" THEN Raise(a.exc, 0)
        ELSE IF d.exc # "" THEN Raise(d.exc, 0)
        ELSE Return([status |-> TRUE,
                     msg |-> Msg("TX was successfully validated", <<>>, "", <<>>),
                     time |-> [sec |-> d.sec, ms |-> d.ms],
                     amount |-> amount_usdt(a.sun),
                     tx_hash |-> tx_hash,
                     sender |-> sender,
                     receiver |-> receiver,
                     confirmations |-> confirmations], 0)

\* lines 135-147
check_timestamp(tx_data, tx_hash, sender, receiver, confirmations, now) ==
    LET time_tx_ms == Get(tx_data.timestamp, JInt(0)) IN
    IF ~Truthy(time_tx_ms)
    THEN Return(Reject("Error: Could not extract transaction timestamp"), 0)
    ELSE IF ~IsNumber(time_tx_ms) THEN Raise("TypeError", 0)
    ELSE IF expired(now, time_tx_ms)
    THEN Return(RejectWith("Your submission time for the TX hash has expired",
                           <<(now - time_tx_ms.n) \div 1000>>, "", <<>>), 0)
    ELSE extract_and_accept(tx_data, tx_hash, sender, receiver, confirmations,
                            time_tx_ms)

\* the reversal checked before the contract type
check_type_and_revert_swapped(tx_data, tx_hash, sender, receiver, confirmations, now) ==
    LET raw == Get(tx_data.contract_type, JChars(<<>>)) IN
    IF IsTrueObject(Get(tx_data.revert, JBool(FALSE)))
    THEN Return(Reject("Revert happened"), 0)
    ELSE IF raw.t # "str" THEN Raise("AttributeError", 0)
    ELSE LET contract_type == Lower(raw.cs) IN
    IF contract_type # <<"t", "r", "c", "2", "0">>
    THEN Return(RejectWith("The format of the TX is not trc20",
                           <<>>, "", contract_type), 0)
    ELSE check_timestamp(tx_data, tx_hash, sender, receiver, confirmations, now)

\* lines 124-133
check_type_and_revert(tx_data, tx_hash, sender, receiver, confirmations, now) ==
    LET raw == Get(tx_data.contract_type, JChars(<<>>)) IN
    IF raw.t # "str" THEN Raise("AttributeError", 0)
    ELSE LET contract_type == Lower(raw.cs) IN
    IF contract_type # <<"t", "r", "c", "2", "0">>
    THEN Return(RejectWith("The format of the TX is not trc20",
                           <<>>, "", contract_type), 0)
    ELSE IF IsTrueObject(Get(tx_data.revert, JBool(FALSE)))
    THEN Return(Reject("Revert happened"), 0)
    ELSE check_timestamp(tx_data, tx_hash, sender, receiver, confirmations, now)

\* lines 109-122
check_receiver(tx_data, tx_hash, wallet_bugs, sender, confirmations, now) ==
    LET trc20_info == tx_data.trc20TransferInfo IN
    IF trc20_info.t # "list" \/ Len(trc20_info.items) = 0
    THEN Return(Reject(
            "Error: No TRC20 transfer information found in transaction"), 0)
    ELSE IF trc20_info.items[1].t # "dict" THEN Raise("AttributeError", 0)
    ELSE LET receiver == Get(trc20_info.items[1].to_address, JStr("")) IN
    IF ~Truthy(receiver)
    THEN Return(Reject("Error: Could not extract receiver address"), 0)
    ELSE IF ~PyEqStr(receiver, wallet_bugs)
    THEN Return(RejectWith("The receiver wallet doesn't belong to us",
                           <<>>, wallet_bugs, <<>>), 0)
    ELSE check_type_and_revert(tx_data, tx_hash, sender, receiver,
                               confirmations, now)

\* the threshold itself rejected: <= instead of <
under_confirmed_inclusive(confirmations, is_confirmed) ==
    confirmations.n <= MIN_CONFIRMATIONS \/ ~Truthy(is_confirmed)

\* line 95: confirmations < MIN_CONFIRMATIONS or not is_confirmed
under_confirmed(confirmations, is_confirmed) ==
    confirmations.n < MIN_CONFIRMATIONS \/ ~Truthy(is_confirmed)

\* lines 86-107, then the rest of the chain
validate(tx_data, tx_hash, wallet_customer, wallet_bugs, now) ==
    LET confirmations == Get(tx_data.confirmations, JInt(0))
        is_confirmed == Get(tx_data.confirmed, JBool(FALSE))
        sender == Get(tx_data.ownerAddress, JStr(""))
    IN
    IF ~PyEqStr(tx_data.contractRet, "SUCCESS")
    THEN Return(Reject("The transaction didn't complete correctly (FAILED)."), 0)
    ELSE IF ~IsNumber(confirmations) THEN Raise("TypeError", 0)
    ELSE IF under_confirmed(confirmations, is_confirmed)
    THEN Return(RejectWith(
            "Warning: The transaction is not confirmed by enough blocks",
            <<confirmations.n, MIN_CONFIRMATIONS>>, "", <<>>), 0)
    ELSE IF ~Truthy(sender)
    THEN Return(Reject("Error: Could not extract sender address"), 0)
    ELSE IF ~PyEqStr(sender, wallet_customer)
    THEN Return(RejectWith("The sender of the amount is not authorized",
                           <<>>, wallet_customer, <<>>), 0)
    ELSE check_receiver(tx_data, tx_hash, wallet_bugs, sender, confirmations,
                        now)

\* ------------------------------------------------------------------------
\* The body of get_tx_info inside its try, lines 60-170
\* ------------------------------------------------------------------------
\* only the transaction id checked
missing_parameters_hash_only(tx_hash, wallet_customer, wallet_bugs) ==
    tx_hash = ""

\* line 61: not tx_hash or not wallet_customer or not wallet_bugs
missing_parameters(tx_hash, wallet_customer, wallet_bugs) ==
    tx_hash = "" \/ wallet_customer = "" \/ wallet_bugs = ""

\* any content type that is present let through
json_content_type_present(content_type) == Strip(content_type) # <<>>

\* lines 78-79: the content-type header, stripped, starts with the JSON type
json_content_type(content_type) == StartsWithJson(Strip(content_type))

\* net is what requests.get(tx_url, timeout=REQUEST_TIMEOUT) does this time
try_body(tx_hash, wallet_customer, wallet_bugs, net, now) ==
    IF missing_parameters(tx_hash, wallet_customer, wallet_bugs)
    THEN Return(Reject("Error: Missing required parameters"), 0)
    ELSE IF net.kind # "response" THEN Raise(net.kind, 1)
    ELSE IF net.status_code # 200
    THEN Return(RejectWith("Error: Received non-200 status code",
                           <<net.status_code>>, "", <<>>), 1)
    ELSE IF ~json_content_type(net.content_type)
    THEN Return(Reject("Error: Received non-JSON content type"), 1)
    ELSE IF net.body = "invalid" THEN Raise("JSONDecodeError", 1)
    ELSE IF net.body # "object" THEN Raise("AttributeError", 1)
    ELSE LET r == validate(net.tx_data, tx_hash, wallet_customer, wallet_bugs,
                           now)
         IN  [r EXCEPT !.http = 1]

\* the except clauses of lines 172-186, in their order
except_clauses(e) ==
    IF IsInstance(e, "Timeout")
    THEN Reject("Error: Request timeout. The API server is not responding in time.")
    ELSE IF IsInstance(e, "ConnectionError")
    THEN Reject("Error: Connection error. Please check your internet connection.")
    ELSE IF IsInstance(e, "ValueError")
    THEN Reject("Error: Invalid response format from API")
    ELSE IF IsInstance(e, "RequestException")
    THEN RejectWith("Error: Request failed", <<>>, e, <<>>)
    ELSE RejectWith("TX checker has unexpected error", <<>>, e, <<>>)

\* get_tx_info without its last clause, except Exception
get_tx_info_no_catch_all(tx_hash, wallet_customer, wallet_bugs, net, now) ==
    LET b == try_body(tx_hash, wallet_customer, wallet_bugs, net, now) IN
    IF /\ b.kind = "raise"
       /\ IsInstance(b.exc, "RequestException") \/ IsInstance(b.exc, "ValueError")
    THEN Return(except_clauses(b.exc), b.http)
    ELSE b

\* get_tx_info as defined at line 47, before decoration
get_tx_info(tx_hash, wallet_customer, wallet_bugs, net, now) ==
    LET b == try_body(tx_hash, wallet_customer, wallet_bugs, net, now) IN
    IF b.kind = "raise" /\ IsInstance(b.exc, "Exception")
    THEN Return(except_clauses(b.exc), b.http)
    ELSE b

\* ------------------------------------------------------------------------
\* Inputs: the arguments, the network's answers, the records
\* ------------------------------------------------------------------------
Args ==
    [tx_hash : {"", "tx1"},
     wallet_customer : {"", "Sender1"},
     wallet_bugs : {"", "Receiver1"}]

\* ages of a transaction at the time of the call, in milliseconds
FreshAges ==
    {10000} \cup
    {a \in {(TX_EXPIRY_SECONDS + k) * 1000 + d : k \in -AgeSpread..AgeSpread,
                                                 d \in {-1, 0, 1}} :
        a <= TX_EXPIRY_SECONDS * 1000}
StaleAges ==
    {a \in {(TX_EXPIRY_SECONDS + k) * 1000 + d : k \in -AgeSpread..AgeSpread,
                                                 d \in {-1, 0, 1}} :
        a > TX_EXPIRY_SECONDS * 1000}

Entry(to) == [t |-> "dict", to_address |-> to]
NotADict == [t |-> "str", to_address |-> Absent]
Transfers(t, items) == [t |-> t, items |-> items]
Trigger(ti, parameter, value) ==
    [ti |-> ti, parameter |-> parameter, value |-> value]

Fields ==
    {"contractRet", "confirmations", "confirmed", "ownerAddress",
     "trc20TransferInfo", "contract_type", "revert", "timestamp",
     "trigger_info"}

\* the values of each field in a transfer that the service reports as the
\* expected, completed, confirmed and recent TRC20 transfer
Usual(f) ==
    CASE f = "contractRet" -> {JStr("SUCCESS")}
      [] f = "confirmations" ->
            {JInt(c) : c \in MIN_CONFIRMATIONS..MIN_CONFIRMATIONS + ConfSpread}
      [] f = "confirmed" -> {JBool(TRUE)}
      [] f = "ownerAddress" -> {JStr("Sender1")}
      [] f = "trc20TransferInfo" ->
            {Transfers("list", <<Entry(JStr("Receiver1"))>>),
             Transfers("list", <<Entry(JStr("Receiver1")),
                                 Entry(JStr("Other"))>>)}
      [] f = "contract_type" ->
            {JChars(<<"t", "r", "c", "2", "0">>),
             JChars(<<"T", "R", "C", "2", "0">>)}
      [] f = "revert" -> {JBool(FALSE)}
      [] f = "timestamp" -> {JInt(ClockMs - a) : a \in FreshAges}
      [] f = "trigger_info" ->
            {Trigger("dict", "dict", JInt(5000000)),
             Trigger("dict", "dict", JInt(1500001)),
             Trigger("dict", "dict", JChars(<<"2", "5", "0", "0", "0", "0",
                                              "0">>))}

\* the other values: failed, missing, empty, mismatching, stale, of another
\* type, out of range
Unusual(f) ==
    CASE f = "contractRet" -> {JStr("REVERT"), Absent}
      [] f = "confirmations" ->
            {JInt(c) : c \in MIN_CONFIRMATIONS - ConfSpread
                              ..MIN_CONFIRMATIONS - 1}
            \cup {JInt(5), Absent, JStr("25")}
      [] f = "confirmed" -> {JBool(FALSE), Absent, JStr("false")}
      [] f = "ownerAddress" -> {JStr("Other"), JStr(""), Absent}
      [] f = "trc20TransferInfo" ->
            {Transfers("absent", <<>>), Transfers("null", <<>>),
             Transfers("list", <<>>), Transfers("dict", <<>>),
             Transfers("list", <<Entry(JStr("Other"))>>),
             Transfers("list", <<Entry(JStr("Other")),
                                 Entry(JStr("Receiver1"))>>),
             Transfers("list", <<Entry(JStr(""))>>),
             Transfers("list", <<Entry(Absent)>>),
             Transfers("list", <<NotADict>>)}
      [] f = "contract_type" ->
            {JChars(<<"t", "r", "c", "1", "0">>), Absent, JInt(20)}
      [] f = "revert" -> {JBool(TRUE), Absent, JInt(1)}
      [] f = "timestamp" ->
            {JInt(ClockMs - a) : a \in StaleAges}
            \cup {JInt(ClockMs + 5000), JBig, JInt(0), Absent, JStr("now")}
      [] f = "trigger_info" ->
            {Trigger("absent", "absent", Absent),
             Trigger("null", "absent", Absent),
             Trigger("dict", "absent", Absent),
             Trigger("dict", "null", Absent),
             Trigger("dict", "dict", Absent),
             Trigger("dict", "dict", JNull),
             Trigger("dict", "dict", JChars(<<"a", "b", "c">>)),
             Trigger("dict", "dict", JChars(<<>>)),
             Trigger("dict", "dict", JInt(0)),
             Trigger("dict", "dict", JBool(TRUE)),
             Trigger("dict", "dict", JBig)}

Values(f, dev) == IF f \in dev THEN Unusual(f) ELSE Usual(f)

\* the records in which the fields of dev, and no others, are unusual
RecordsWith(dev) ==
    [contractRet : Values("contractRet", dev),
     confirmations : Values("confirmations", dev),
     confirmed : Values("confirmed", dev),
     ownerAddress : Values("ownerAddress", dev),
     trc20TransferInfo : Values("trc20TransferInfo", dev),
     contract_type : Values("contract_type", dev),
     revert : Values("revert", dev),
     timestamp : Values("timestamp", dev),
     trigger_info : Values("trigger_info", dev)]

Deviations == {dev \in SUBSET Fields : Cardinality(dev) <= MaxDeviations}

Response(status_code, content_type, body, tx_data) ==
    [kind |-> "response", status_code |-> status_code,
     content_type |-> content_type, body |-> body, tx_data |-> tx_data]
Failure(kind) ==
    [kind |-> kind, status_code |-> 0, content_type |-> <<>>,
     body |-> "none", tx_data |-> PyNone]

\* header values as http.client delivers them: leading blanks removed
JsonTypes ==
    {<<"application/json">>, <<"application/json", "; charset=utf-8">>,
     <<"application/json", " ">>}
OtherTypes ==
    {<<>>, <<"text/html">>, <<"text/html", " ">>, <<"Application/JSON">>}

\* requests.get raises, or returns a response that is not a record
NetFailures ==
    {Failure(k) : k \in {"Timeout", "ConnectTimeout", "ConnectionError",
                         "TooManyRedirects"}}
    \cup {Response(c, t, "none", PyNone) :
            c \in {404, 500}, t \in JsonTypes \cup OtherTypes}
    \cup {Response(200, t, "none", PyNone) : t \in OtherTypes}
    \cup {Response(200, t, b, PyNone) :
            t \in JsonTypes, b \in {"invalid", "nonobject"}}

\* ------------------------------------------------------------------------
\* State
\* ------------------------------------------------------------------------
VARIABLES
    pc,        \* "calling": in the wrapper's loop; "returned"; "raised"
    args,      \* the arguments of the call
    attempt,   \* the wrapper's loop variable
    requests,  \* HTTP requests issued so far in this call
    slept,     \* seconds spent in time.sleep so far in this call
    nets,      \* what each HTTP request of this call met, in order
    now,       \* the wall clock read by the latest run of the body
    result     \* the value the call returned
vars == <<pc, args, attempt, requests, slept, nets, now, result>>

Init ==
    /\ pc = "calling"
    /\ args \in Args
    /\ attempt = 0
    /\ requests = 0
    /\ slept = 0
    /\ nets = <<>>
    /\ now = ClockMs
    /\ result = PyNone

\* one iteration of the loop of wrapper, lines 33-42, on the answer n of the
\* network
wrapper_step(n) ==
    IF attempt >= MAX_RETRIES
    THEN /\ pc' = "returned"
         /\ result' = PyNone
         /\ UNCHANGED <<attempt, requests, slept, nets>>
    ELSE
    LET out == get_tx_info(args.tx_hash, args.wallet_customer,
                           args.wallet_bugs, n, now)
    IN  /\ requests' = requests + out.http
        /\ nets' = IF out.http = 1 THEN Append(nets, n) ELSE nets
        /\ IF out.kind = "return"
           THEN /\ pc' = "returned"
                /\ result' = out.value
                /\ UNCHANGED <<attempt, slept>>
           ELSE IF \/ IsInstance(out.exc, "Timeout")
                   \/ IsInstance(out.exc, "ConnectionError")
           THEN IF attempt < MAX_RETRIES - 1
                THEN /\ slept' = slept + RETRY_DELAY
                     /\ attempt' = attempt + 1
                     /\ UNCHANGED <<pc, result>>
                ELSE /\ pc' = "raised"
                     /\ UNCHANGED <<attempt, slept, result>>
           ELSE /\ pc' = "raised"
                /\ UNCHANGED <<attempt, slept, result>>

\* the call meets a failure of the network or of the response
wrapper_on_failure ==
    /\ pc = "calling"
    /\ \E n \in NetFailures : wrapper_step(n)
    /\ UNCHANGED <<args, now>>

\* the call meets a JSON object
wrapper_on_record ==
    /\ pc = "calling"
    /\ \E dev \in Deviations : \E tx_data \in RecordsWith(dev) :
          wrapper_step(Response(200, <<"application/json">>, "object", tx_data))
    /\ UNCHANGED <<args, now>>

Next == wrapper_on_failure \/ wrapper_on_record

Spec == Init /\ [][Next]_vars

\* ------------------------------------------------------------------------
\* Vocabulary of the properties
\* ------------------------------------------------------------------------
Returned == pc = "returned"
LastNet == nets[Len(nets)]
\* the call fetched a JSON object and applied the gates to it
FetchedRecord ==
    /\ Returned
    /\ nets # <<>>
    /\ LastNet.kind = "response"
    /\ LastNet.status_code = 200
    /\ LastNet.body = "object"
Rec == LastNet.tx_data
ParametersPresent ==
    args.tx_hash # "" /\ args.wallet_customer # "" /\ args.wallet_bugs # ""

\* the fields that are present have the types of the service's interface:
\* strings, an integer count, booleans, an array of objects, an integer
\* timestamp, nested objects holding a number or a string
TypeConformant(r) ==
    /\ r.contractRet.t \in {"str", "absent"}
    /\ r.confirmations.t \in {"int", "absent"}
    /\ r.confirmed.t \in {"bool", "absent"}
    /\ r.ownerAddress.t \in {"str", "absent"}
    /\ r.trc20TransferInfo.t \in {"list", "absent"}
    /\ \A i \in 1..Len(r.trc20TransferInfo.items) :
          /\ r.trc20TransferInfo.items[i].t = "dict"
          /\ r.trc20TransferInfo.items[i].to_address.t \in {"str", "absent"}
    /\ r.contract_type.t \in {"str", "absent"}
    /\ r.revert.t \in {"bool", "absent"}
    /\ r.timestamp.t \in {"int", "bigint", "absent"}
    /\ r.trigger_info.ti \in {"dict", "absent"}
    /\ r.trigger_info.parameter \in {"dict", "absent"}
    /\ r.trigger_info.value.t \in {"int", "bigint", "str", "null", "absent"}

Trc20Spelling(q) ==
    /\ Len(q) = 5
    /\ q[1] \in {"t", "T"} /\ q[2] \in {"r", "R"} /\ q[3] \in {"c", "C"}
    /\ q[4] = "2" /\ q[5] = "0"

\* the gates as the specification states them, on a type-conformant record
Gate2(r) == r.contractRet = JStr("SUCCESS")
Gate3(r) ==
    /\ r.confirmations.t = "int"
    /\ r.confirmations.n >= MIN_CONFIRMATIONS
    /\ r.confirmed = JBool(TRUE)
SenderPresent(r) == r.ownerAddress.t = "str" /\ r.ownerAddress.s # ""
Gate4(r) == r.ownerAddress = JStr(args.wallet_customer)
TransferPresent(r) ==
    r.trc20TransferInfo.t = "list" /\ Len(r.trc20TransferInfo.items) >= 1
FirstTo(r) == r.trc20TransferInfo.items[1].to_address
ReceiverPresent(r) == FirstTo(r).t = "str" /\ FirstTo(r).s # ""
Gate5(r) == TransferPresent(r) /\ ReceiverPresent(r)
Gate6(r) == FirstTo(r) = JStr(args.wallet_bugs)
Gate7(r) == r.contract_type.t = "str" /\ Trc20Spelling(r.contract_type.cs)
Gate8(r) == r.revert # JBool(TRUE)
TimestampPresent(r) ==
    r.timestamp.t = "bigint" \/ (r.timestamp.t = "int" /\ r.timestamp.n # 0)
\* age = now - timestamp / 1000 in seconds; AgeMs is 1000 * age
AgeMs(r) == now - r.timestamp.n
Fresh(r) == r.timestamp.t = "bigint" \/ AgeMs(r) <= TX_EXPIRY_SECONDS * 1000
Gate9(r) == TimestampPresent(r) /\ Fresh(r)
AmountPresent(r) ==
    /\ r.trigger_info.ti = "dict"
    /\ r.trigger_info.parameter = "dict"
    /\ r.trigger_info.value.t # "absent"
RawAmount(r) == r.trigger_info.value
AmountNumeric(r) ==
    \/ RawAmount(r).t \in {"int", "bigint"}
    \/ RawAmount(r).t = "str" /\ IsNumeric(RawAmount(r).cs)
\* gate 10 fails on a raw amount that is there and is not a number
Gate10(r) == AmountPresent(r) => AmountNumeric(r)
Gates2to8(r) ==
    /\ Gate2(r) /\ Gate3(r) /\ Gate4(r) /\ Gate5(r) /\ Gate6(r) /\ Gate7(r)
    /\ Gate8(r)
Gates2to9(r) == Gates2to8(r) /\ Gate9(r)

TextMissingParameters == "Error: Missing required parameters"
TextFailed == "The transaction didn't complete correctly (FAILED)."
TextUnderConfirmed ==
    "Warning: The transaction is not confirmed by enough blocks"
TextNoSender == "Error: Could not extract sender address"
TextSender == "The sender of the amount is not authorized"
TextNoTransfer == "Error: No TRC20 transfer information found in transaction"
TextNoReceiver == "Error: Could not extract receiver address"
TextReceiver == "The receiver wallet doesn't belong to us"
TextType == "The format of the TX is not trc20"
TextRevert == "Revert happened"
TextNoTimestamp == "Error: Could not extract transaction timestamp"
TextExpired == "Your submission time for the TX hash has expired"
TextAmount == "Error: Could not extract transaction amount"
TextSuccess == "TX was successfully validated"
TextUnexpected == "TX checker has unexpected error"
PolicyTexts ==
    {TextFailed, TextUnderConfirmed, TextSender, TextReceiver, TextType,
     TextRevert, TextExpired}

RawNumber(r) ==
    IF RawAmount(r).t = "int" THEN RawAmount(r).n
    ELSE ParseDigits(RawAmount(r).cs)
Accepted(r) ==
    /\ result.status
    /\ result.msg.text = TextSuccess
    /\ result.amount.whole * 1000000 + result.amount.micro = RawNumber(r)
    /\ result.amount.micro \in 0..999999
    /\ result.tx_hash = args.tx_hash
    /\ result.sender = r.ownerAddress
    /\ result.receiver = FirstTo(r)
    /\ result.confirmations = r.confirmations

\* C2 as stated: every fetched record that satisfies all ten gates, with a raw
\* amount that is a number, is accepted with amount = raw / 1,000,000 and the
\* transaction id, sender, receiver and confirmation count of the input.
C2_AsStated ==
    (FetchedRecord /\ Gates2to9(Rec) /\ AmountPresent(Rec) /\ AmountNumeric(Rec))
        => Accepted(Rec)
\* C2: the same, for the records whose timestamp has a local datetime (up to
\* year 9999) and whose raw amount is within the range of a float.
C2_AcceptanceComplete ==
    (/\ FetchedRecord /\ Gates2to9(Rec)
     /\ AmountPresent(Rec) /\ AmountNumeric(Rec)
     /\ Rec.timestamp.t = "int" /\ RawAmount(Rec).t # "bigint")
        => Accepted(Rec)
C2_Witness ==
    /\ FetchedRecord /\ Gates2to9(Rec)
    /\ RawAmount(Rec) = JInt(1500001)
    /\ result.status
    /\ result.amount = [whole |-> 1, micro |-> 500001]

Transient(n) == n.kind \in {"Timeout", "ConnectTimeout", "ConnectionError"}
\* C3 as stated: a call whose every HTTP attempt times out or fails to connect
\* makes MAX_RETRIES attempts, waits RETRY_DELAY between them, and ends in a
\* terminal fetch error.
C3_AsStated ==
    (/\ pc \in {"returned", "raised"}
     /\ nets # <<>>
     /\ \A i \in 1..Len(nets) : Transient(nets[i]))
        => /\ requests = MAX_RETRIES
           /\ slept = (MAX_RETRIES - 1) * RETRY_DELAY

NotJson(content_type) ==
    content_type = <<>> \/ Head(content_type) # "application/json"
Structural(n) ==
    /\ n.kind = "response"
    /\ n.status_code # 200 \/ NotJson(n.content_type) \/ n.body = "invalid"
\* C4: when the first response has a status other than 200, a content type
\* that does not start with application/json, or a body that is not JSON, the
\* call makes that one request, does not wait, and returns a rejection that
\* describes the failure.
C4_StructuralFailFast ==
    (nets # <<>> /\ Structural(nets[1])) =>
        /\ Returned
        /\ requests = 1 /\ Len(nets) = 1 /\ slept = 0 /\ attempt = 0
        /\ ~result.status
        /\ DOMAIN result = {"status", "msg"}
        /\ IF nets[1].status_code # 200
           THEN /\ result.msg.text = "Error: Received non-200 status code"
                /\ result.msg.nums = <<nets[1].status_code>>
           ELSE IF NotJson(nets[1].content_type)
           THEN result.msg.text = "Error: Received non-JSON content type"
           ELSE result.msg.text = "Error: Invalid response format from API"
C4_Witness ==
    /\ Returned /\ nets # <<>>
    /\ nets[1].kind = "response" /\ nets[1].status_code = 200
    /\ nets[1].content_type = <<"text/html">>
    /\ requests = 1

\* the gates of 2..10 that a record fails
Holds(k, r) ==
    CASE k = 2 -> Gate2(r)
      [] k = 3 -> Gate3(r)
      [] k = 4 -> SenderPresent(r) /\ Gate4(r)
      [] k = 5 -> Gate5(r)
      [] k = 6 -> Gate5(r) /\ Gate6(r)
      [] k = 7 -> Gate7(r)
      [] k = 8 -> Gate8(r)
      [] k = 9 -> Gate9(r)
      [] k = 10 -> Gate10(r)
FailingGates(r) == {k \in 2..10 : ~Holds(k, r)}
Lowest(S) == CHOOSE k \in S : \A j \in S : k <= j
TextsOf(k) ==
    CASE k = 2 -> {TextFailed}
      [] k = 3 -> {TextUnderConfirmed}
      [] k = 4 -> {TextNoSender, TextSender}
      [] k = 5 -> {TextNoTransfer, TextNoReceiver}
      [] k = 6 -> {TextReceiver}
      [] k = 7 -> {TextType}
      [] k = 8 -> {TextRevert}
      [] k = 9 -> {TextNoTimestamp, TextExpired}
      [] k = 10 -> {TextAmount}
\* C5: the reason returned for a fetched, type-conformant record that fails
\* gates is a message of the lowest-numbered gate it fails; missing
\* parameters (gate 1) are reported before anything else.
C5_FirstFailingGate ==
    /\ (Returned /\ ~ParametersPresent) =>
            result.msg.text = TextMissingParameters
    /\ (FetchedRecord /\ TypeConformant(Rec) /\ FailingGates(Rec) # {}) =>
            /\ ~result.status
            /\ result.msg.text \in TextsOf(Lowest(FailingGates(Rec)))
C5_Witness ==
    /\ FetchedRecord /\ TypeConformant(Rec)
    /\ {3, 6} \subseteq FailingGates(Rec)
    /\ Gate2(Rec)
    /\ result.msg.text = TextUnderConfirmed

\* C6: no exception leaves the call and it never returns None; every outcome
\* is a dict with a status and one message; a failure of any class (missing
\* parameters, network failure, structural failure, a field of the wrong type
\* that makes the body raise, a failing gate) is the two-key rejection.
RaisingType(r) ==
    \/ Gate2(r) /\ r.confirmations.t = "str"
    \/ r.trigger_info.ti = "null" /\ r.timestamp.t = "int"
C6_UniformOutcome ==
    /\ pc # "raised"
    /\ Returned =>
        /\ {"status", "msg"} \subseteq DOMAIN result
        /\ result.status \in BOOLEAN
        /\ ~result.status => DOMAIN result = {"status", "msg"}
        /\ ~ParametersPresent => ~result.status
        /\ ~FetchedRecord => ~result.status
        /\ (FetchedRecord /\ RaisingType(Rec)) => ~result.status
        /\ (FetchedRecord /\ TypeConformant(Rec) /\ FailingGates(Rec) # {})
              => ~result.status
C6_Witness ==
    /\ FetchedRecord
    /\ Gate2(Rec) /\ Rec.confirmations.t = "str"
    /\ ~result.status
    /\ result.msg.text = TextUnexpected

\* C7: for a record that completed, whose count is an integer and whose flag
\* is a boolean, the confirmation gate rejects exactly when the count is below
\* MIN_CONFIRMATIONS or the flag is not true, and the rejection carries the
\* observed count and MIN_CONFIRMATIONS.
Observed(r) == IF r.confirmations.t = "absent" THEN 0 ELSE r.confirmations.n
AmountUsable(r) ==
    AmountPresent(r) /\ AmountNumeric(r) /\ RawAmount(r).t # "bigint"
C8_FreshnessBoundary ==
    (FetchedRecord /\ TypeConformant(Rec) /\ Gates2to8(Rec)) =>
        /\ ~TimestampPresent(Rec) =>
              ~result.status /\ result.msg.text = TextNoTimestamp
        /\ (TimestampPresent(Rec) /\ Rec.timestamp.t = "int") =>
              /\ result.msg.text # TextNoTimestamp
              /\ result.msg.text = TextExpired
                    <=> AgeMs(Rec) > TX_EXPIRY_SECONDS * 1000
              /\ (AgeMs(Rec) = TX_EXPIRY_SECONDS * 1000 /\ AmountUsable(Rec))
                    => result.status
              /\ AgeMs(Rec) = (TX_EXPIRY_SECONDS + 1) * 1000 =>
                    /\ ~result.status
                    /\ result.msg.nums = <<TX_EXPIRY_SECONDS + 1>>
C8_Witness ==
    /\ FetchedRecord /\ TypeConformant(Rec) /\ Gates2to8(Rec)
    /\ Rec.timestamp.t = "int"
    /\ AgeMs(Rec) = TX_EXPIRY_SECONDS * 1000
    /\ result.status

\* C9 as stated: a type-conformant record that passes gates 1-9 and whose raw
\* amount is absent or is not a number is rejected with the amount-extraction
\* error, which is none of the policy rejections.
C9_AsStated ==
    (/\ FetchedRecord /\ TypeConformant(Rec) /\ Gates2to9(Rec)
     /\ ~(AmountPresent(Rec) /\ AmountNumeric(Rec))) =>
        /\ ~result.status
        /\ result.msg.text = TextAmount
        /\ result.msg.text \notin PolicyTexts

\* C10: a call with an empty transaction id, expected sender or expected
\* receiver issues no HTTP request and does not wait, and returns the
\* missing-parameters rejection.
C10_ParametersBeforeNetwork ==
    ~ParametersPresent =>
        /\ requests = 0 /\ nets = <<>> /\ slept = 0 /\ attempt = 0
        /\ Returned =>
              /\ ~result.status
              /\ result.msg.text = TextMissingParameters
              /\ DOMAIN result = {"status", "msg"}
C10_Witness ==
    /\ Returned
    /\ args.tx_hash # "" /\ args.wallet_customer # "" /\ args.wallet_bugs = ""
    /\ result.msg.text = TextMissingParameters

====
